---- MODULE Spec2Model ----
(***************************************************************************)
(* Connection/room registry and message router of the bingo relay server   *)
(* (src/server.ts; src/unnamed/part_000 is the same core with numeric      *)
(* timestamps).  Every handler runs to completion on the single JavaScript *)
(* event loop, so each handler is one action.                              *)
(*                                                                         *)
(* Text values that pass through sanitizeInput are sequences of one-       *)
(* character strings.  An absent query parameter or payload field and an   *)
(* empty one are both falsy in the code ("x || default"), so both are the  *)
(* empty sequence here.  Timestamps (joinedAt, createdAt, timestamp) are   *)
(* not modelled.                                                           *)
(***************************************************************************)
EXTENDS Integers, Sequences, FiniteSets, TLC

\* Number of connections accepted in a run.  generateClientId produces a
\* fresh id per accepted upgrade; the k-th accepted connection has id k.
MaxClients == 3

Ids == 1..MaxClients

\* excludeClientId = null in broadcastToRoom, and "no target" in a frame
NoId == 0
\* message.target === 'broadcast'
TargetBroadcast == -1
\* a target string that is the id of no connection
TargetUnknown == -2

VARIABLES
    clients,      \* Map<string, Client>: id -> [userId, name, room, role]
    rooms,        \* Map<string, Room>: room name -> [name, clients]
    clientRooms,  \* Map<string, string>: id -> room name
    sock,         \* readyState of each connection's WebSocket
    closeFired,   \* ids whose close event has been dispatched
    nextId,       \* the id the next accepted connection gets
    out,          \* frames accepted by sockets during the last handler, in order
    lastOp,       \* the event the last handler ran for
    lefts,        \* per id: runs of handleClientDisconnect that got past its guard
    rateLimits,   \* Map<string, {count, resetTime}>: origin -> bucket
    now,          \* Date.now(), in milliseconds
    response,     \* the request handleRequest served last and its Response
    admits,       \* per origin: start of its current window, calls made in it
    uniqueIds,    \* whether generateClientId never repeats an id in this run
    arrived,      \* number of inbound frames onmessage has been run for
    inbox         \* per connection: the frames its socket accepted, in order,
                  \* each with the sender and the arrival number of the
                  \* inbound frame it was sent for

vars == <<clients, rooms, clientRooms, sock, closeFired, nextId, out, lastOp,
          lefts>>

\* The state of the HTTP front: rate limiter, clock, last response
httpVars == <<rateLimits, now, response, admits>>

\* The record of arrivals and deliveries
fifoVars == <<arrived, inbox>>

allVars == <<vars, httpVars, uniqueIds, fifoVars>>

----------------------------------------------------------------------------
\* Text constants

ANONYMOUS == <<"A","n","o","n","y","m","o","u","s">>
BINGO_MAIN == <<"b","i","n","g","o","_","m","a","i","n">>
PLAYER == <<"p","l","a","y","e","r">>
ADMIN == <<"a","d","m","i","n">>
SPECTATOR == <<"s","p","e","c","t","a","t","o","r">>

\* s.replace(/c/g, r) for a single character c: every character is
\* replaced on its own, so the text is done in halves
RECURSIVE ReplaceAll(_, _, _)
ReplaceAll(s, c, r) ==
    IF Len(s) = 0 THEN <<>>
    ELSE IF Len(s) = 1 THEN (IF s[1] = c THEN r ELSE s)
    ELSE LET h == Len(s) \div 2
         IN  ReplaceAll(SubSeq(s, 1, h), c, r)
                 \o ReplaceAll(SubSeq(s, h + 1, Len(s)), c, r)

sanitizeInput(input) ==
    ReplaceAll(
        ReplaceAll(
            ReplaceAll(
                ReplaceAll(input, "<", <<"&","l","t",";">>),
                ">", <<"&","g","t",";">>),
            "\"", <<"&","q","u","o","t",";">>),
        "'", <<"&","#","x","2","7",";">>)

\* x || d for text values
OrDefault(x, d) == IF x = <<>> THEN d ELSE x

----------------------------------------------------------------------------
\* Inputs

\* Query strings of upgrade requests.  The k-th request carries its own name
\* and role parameter (absent for the first, so the defaults are used; a
\* name with a character to escape for the second; a role outside the three
\* declared ones for the third) and any of the room parameters.
NameParam(k) == CASE k = 1 -> <<>>
                  [] k = 2 -> <<"B","<">>
                  [] OTHER -> <<"C">>
RoleParam(k) == CASE k = 1 -> <<>>
                  [] k = 2 -> ADMIN
                  [] k = 3 -> <<"r","o","o","t">>
                  [] OTHER -> SPECTATOR
RoomParams == { <<>>, <<"r","2">> }
Profiles(k) == { [name |-> NameParam(k), room |-> r, role |-> RoleParam(k)] :
                   r \in RoomParams }

\* The origins getClientIp derives from the headers of a request: "unknown"
\* when neither x-forwarded-for nor x-real-ip is set, else the address given
UNKNOWN_ORIGIN == <<"u","n","k","n","o","w","n">>
OTHER_ORIGIN == <<"1","0",".","0",".","0",".","7">>
Origins == {UNKNOWN_ORIGIN, OTHER_ORIGIN}

\* Requests: the origin getClientIp returns, the method, the path and
\* whether the upgrade header asks for a websocket
Request(ip, method, path, upgrade) ==
    [ip |-> ip, method |-> method, path |-> path, upgrade |-> upgrade]
WsRequest(ip) == Request(ip, "GET", "/ws", TRUE)
Requests ==
    { Request(ip, "GET", path, FALSE) : ip \in Origins, path \in {"/health", "/stats"} }
    \cup { WsRequest(ip) : ip \in Origins }

\* message.number: a JSON number is kept in tenths (x10 = 455 is 45.5);
\* isNum is FALSE for an absent or non-numeric payload.
Num(x10) == [isNum |-> TRUE, x10 |-> x10]
NotNum == [isNum |-> FALSE, x10 |-> 0]

\* The JSON object of an inbound frame (absent fields are falsy values).
Body(type, number, target, message, winAmount, from) ==
    [type |-> type, number |-> number, target |-> target,
     message |-> message, winAmount |-> winAmount, from |-> from]

Plain(type) == Body(type, NotNum, NoId, <<>>, 0, NoId)

\* An inbound text frame, event.data: parse is "ok" (a JSON object, body),
\* "bad" (JSON.parse throws) or "null" (the JSON text null).
Frame(body) == [parse |-> "ok", body |-> body]
BadJson == [parse |-> "bad", body |-> Plain("")]
JsonNull == [parse |-> "null", body |-> Plain("")]

SignalTypes == {"offer", "answer", "ice-candidate"}

\* The length limit of handleChatMessage
MaxChatLength == 500

\* n times the character "a"
Letters(n) == [i \in 1..n |-> "a"]

\* message.message of chat frames: absent, short, with characters to escape,
\* and at the length limit with and without a character to escape
ChatTexts ==
    { <<>>, <<"h","i">>, <<"<","'">>,
      Letters(MaxChatLength), Letters(MaxChatLength + 1),
      Letters(MaxChatLength - 1) \o <<"<">> }

\* sanitizeInput tabulated over the chat texts (computed once)
SanitizedChat == [m \in ChatTexts |-> sanitizeInput(m)]

\* A join frame that names a room
JoinRoom(room) ==
    [type |-> "join", number |-> NotNum, target |-> NoId, message |-> <<>>,
     winAmount |-> 0, from |-> NoId, room |-> room]

Bodies ==
    { Plain("ping"), Plain("join"), Plain("get-users"), Plain("reset-game"),
      JoinRoom(<<"r","2">>) }
    \cup { Body("bingo-number", n, NoId, <<>>, 0, NoId) :
             n \in {NotNum, Num(0), Num(10), Num(450), Num(455), Num(900), Num(905),
                    Num(910)} }
    \cup { Body("winner", NotNum, NoId, <<>>, w, NoId) : w \in {0, 50} }
    \cup { Body(t, NotNum, TargetBroadcast, <<>>, 0, NoId) : t \in SignalTypes }
    \cup { Body("offer", NotNum, tg, <<>>, 0, NoId) :
             tg \in Ids \cup {NoId, TargetUnknown} }
    \cup { Body("answer", NotNum, tg, <<>>, 0, 1) : tg \in {TargetBroadcast, 2} }
    \cup { Body("chat", NotNum, NoId, m, 0, NoId) : m \in ChatTexts }

Messages == {Frame(b) : b \in Bodies} \cup {BadJson, JsonNull}

----------------------------------------------------------------------------
\* Outbound frames

WelcomeFrame(room, id) ==
    [type |-> "welcome", message |-> <<"Welcome to ">> \o room, userId |-> id]
ErrorFrame(text) == [type |-> "error", message |-> text]

\* socket.send(frame) on connection id's socket: an OPEN socket accepts the
\* frame and a CONNECTING socket throws InvalidStateError.  On a CLOSING or
\* CLOSED socket the runtime either discards the frame silently or throws
\* InvalidStateError as well (strict), depending on its version.
Accepts(id) == sock[id] = "OPEN"
SendThrows(id, strict) ==
    \/ sock[id] = "CONNECTING"
    \/ strict /\ sock[id] \in {"CLOSING", "CLOSED"}
SocketSend(id, frame) ==
    IF Accepts(id) THEN << [to |-> id, frame |-> frame] >> ELSE <<>>

\* getRoomUsers that lists only the members whose socket is OPEN
getRoomUsers_OpenOnly(cl, rm, room) ==
    IF room \notin DOMAIN rm THEN <<>>
    ELSE LET present == SelectSeq(rm[room].clients,
                            LAMBDA c : c \in DOMAIN cl /\ sock[c] = "OPEN")
         IN  [i \in 1..Len(present) |->
                 [userId |-> cl[present[i]].userId,
                  name |-> cl[present[i]].name,
                  role |-> cl[present[i]].role]]

\* getRoomUsers(room) over the maps cl, rm
getRoomUsers(cl, rm, room) ==
    IF room \notin DOMAIN rm THEN <<>>
    ELSE LET present == SelectSeq(rm[room].clients, LAMBDA c : c \in DOMAIN cl)
         IN  [i \in 1..Len(present) |->
                 [userId |-> cl[present[i]].userId,
                  name |-> cl[present[i]].name,
                  role |-> cl[present[i]].role]]

\* broadcastToRoom that does not skip excludeClientId
broadcastToRoom_NoExclude(sk, cl, rm, room, excludeClientId, message) ==
    IF room \notin DOMAIN rm THEN <<>>
    ELSE LET rcpt == SelectSeq(rm[room].clients,
                        LAMBDA c : c \in DOMAIN cl /\ sk[c] = "OPEN")
         IN  [i \in 1..Len(rcpt) |-> [to |-> rcpt[i], frame |-> message]]

\* broadcastToRoom that gives up at the first member it cannot send to
broadcastToRoom_StopAtFailure(sk, cl, rm, room, excludeClientId, message) ==
    IF room \notin DOMAIN rm THEN <<>>
    ELSE LET cand == SelectSeq(rm[room].clients,
                        LAMBDA c : c # excludeClientId /\ c \in DOMAIN cl)
             bad == { i \in 1..Len(cand) : sk[cand[i]] # "OPEN" }
             stop == IF bad = {} THEN Len(cand) + 1
                     ELSE CHOOSE i \in bad : \A j \in bad : i <= j
             rcpt == SubSeq(cand, 1, stop - 1)
         IN  [i \in 1..Len(rcpt) |-> [to |-> rcpt[i], frame |-> message]]

\* broadcastToRoom that sends once more to the first member it reached
broadcastToRoom_Resend(sk, cl, rm, room, excludeClientId, message) ==
    IF room \notin DOMAIN rm THEN <<>>
    ELSE LET rcpt == SelectSeq(rm[room].clients,
                        LAMBDA c : /\ c # excludeClientId
                                   /\ c \in DOMAIN cl
                                   /\ sk[c] = "OPEN")
             pass == [i \in 1..Len(rcpt) |-> [to |-> rcpt[i], frame |-> message]]
         IN  IF Len(pass) = 0 THEN pass ELSE Append(pass, pass[1])

\* broadcastToRoom(room, excludeClientId, message) over the maps cl, rm and
\* the readyStates sk: the frames it gets accepted, in the iteration order of
\* the member set
broadcastToRoom(sk, cl, rm, room, excludeClientId, message) ==
    IF room \notin DOMAIN rm THEN <<>>
    ELSE LET rcpt == SelectSeq(rm[room].clients,
                        LAMBDA c : /\ c # excludeClientId
                                   /\ c \in DOMAIN cl
                                   /\ sk[c] = "OPEN")
         IN  [i \in 1..Len(rcpt) |-> [to |-> rcpt[i], frame |-> message]]

----------------------------------------------------------------------------
\* Map helpers

MapSet(m, k, v) == [x \in DOMAIN m \cup {k} |-> IF x = k THEN v ELSE m[x]]
MapDelete(m, k) == [x \in DOMAIN m \ {k} |-> m[x]]

\* Set.add on an insertion-ordered set
SetAdd(s, e) == IF \E i \in 1..Len(s) : s[i] = e THEN s ELSE Append(s, e)
\* Set.delete
SetDelete(s, e) == SelectSeq(s, LAMBDA c : c # e)

\* The member set of room r in the directory rm (empty when r has no Room)
MembersOf(rm, r) ==
    IF r \in DOMAIN rm THEN {rm[r].clients[i] : i \in 1..Len(rm[r].clients)} ELSE {}
Members(r) == MembersOf(rooms, r)

NoMsg == Frame(Plain("none"))

----------------------------------------------------------------------------
\* Rate limiter

\* The ceiling and the window of isRateLimited
RateCeiling == 100
WindowMs == 60000

\* isRateLimited that rejects only above the ceiling
isRateLimited_OffByOne(ip) ==
    LET fresh == MapSet(rateLimits, ip, [count |-> 1, resetTime |-> now + WindowMs])
    IN  IF ip \notin DOMAIN rateLimits
        THEN [limited |-> FALSE, rateLimits |-> fresh]
        ELSE IF now > rateLimits[ip].resetTime
        THEN [limited |-> FALSE, rateLimits |-> fresh]
        ELSE IF rateLimits[ip].count > RateCeiling
        THEN [limited |-> TRUE, rateLimits |-> rateLimits]
        ELSE [limited |-> FALSE,
              rateLimits |-> [rateLimits EXCEPT ![ip].count = @ + 1]]

\* isRateLimited that moves the window of an expired bucket and halves its
\* count
isRateLimited_Decay(ip) ==
    LET fresh == MapSet(rateLimits, ip, [count |-> 1, resetTime |-> now + WindowMs])
    IN  IF ip \notin DOMAIN rateLimits
        THEN [limited |-> FALSE, rateLimits |-> fresh]
        ELSE IF now > rateLimits[ip].resetTime
        THEN [limited |-> FALSE,
              rateLimits |-> [rateLimits EXCEPT
                                ![ip] = [count |-> (@.count \div 2) + 1,
                                         resetTime |-> now + WindowMs]]]
        ELSE IF rateLimits[ip].count >= RateCeiling
        THEN [limited |-> TRUE, rateLimits |-> rateLimits]
        ELSE [limited |-> FALSE,
              rateLimits |-> [rateLimits EXCEPT ![ip].count = @ + 1]]

\* isRateLimited that counts the calls it rejects as well
isRateLimited_CountsRejected(ip) ==
    LET fresh == MapSet(rateLimits, ip, [count |-> 1, resetTime |-> now + WindowMs])
        counted == [rateLimits EXCEPT ![ip].count = @ + 1]
    IN  IF ip \notin DOMAIN rateLimits
        THEN [limited |-> FALSE, rateLimits |-> fresh]
        ELSE IF now > rateLimits[ip].resetTime
        THEN [limited |-> FALSE, rateLimits |-> fresh]
        ELSE IF rateLimits[ip].count >= RateCeiling
        THEN [limited |-> TRUE, rateLimits |-> counted]
        ELSE [limited |-> FALSE, rateLimits |-> counted]

\* One call of isRateLimited(ip) at time now: whether the request is
\* rejected, and the bucket map after the call
isRateLimited(ip) ==
    LET fresh == MapSet(rateLimits, ip, [count |-> 1, resetTime |-> now + WindowMs])
    IN  IF ip \notin DOMAIN rateLimits
        THEN [limited |-> FALSE, rateLimits |-> fresh]
        ELSE IF now > rateLimits[ip].resetTime
        THEN [limited |-> FALSE, rateLimits |-> fresh]
        ELSE IF rateLimits[ip].count >= RateCeiling
        THEN [limited |-> TRUE, rateLimits |-> rateLimits]
        ELSE [limited |-> FALSE,
              rateLimits |-> [rateLimits EXCEPT ![ip].count = @ + 1]]

\* The calls of an origin, counted by windows: a call later than WindowMs
\* after the first call of the origin's window opens a new window; full
\* tells whether the window before had more calls than the ceiling
CountCall(ip) ==
    IF ip \in DOMAIN admits /\ now <= admits[ip].start + WindowMs
    THEN [admits EXCEPT ![ip].calls = @ + 1]
    ELSE MapSet(admits, ip,
                [start |-> now, calls |-> 1,
                 full |-> ip \in DOMAIN admits /\ admits[ip].calls > RateCeiling])

\* No request served yet
NoResponse ==
    [req |-> Request(<<>>, "", "", FALSE), status |-> 0, clients |-> 0, rooms |-> 0]
Respond(req, status) == [req |-> req, status |-> status, clients |-> 0, rooms |-> 0]

----------------------------------------------------------------------------
\* The state of the module once it is loaded
Boot ==
    /\ clients = << >>
    /\ rooms = << >>
    /\ clientRooms = << >>
    /\ sock = [i \in Ids |-> "NONE"]
    /\ closeFired = {}
    /\ nextId = 1
    /\ out = <<>>
    /\ lastOp = [kind |-> "init", id |-> NoId, room |-> <<>>, msg |-> NoMsg,
                 was |-> "NONE"]
    /\ lefts = [i \in Ids |-> 0]
    /\ rateLimits = << >>
    /\ now = 0
    /\ response = NoResponse
    /\ admits = << >>
    /\ arrived = 0
    /\ inbox = [i \in Ids |-> <<>>]

Init == Boot /\ uniqueIds = TRUE

\* RegisterClient with the directory join left out
RegisterClient_NoJoin(id, name, room, role) ==
    /\ clients' = MapSet(clients, id,
                     [userId |-> id, name |-> name, room |-> room, role |-> role])
    /\ rooms' = IF room \in DOMAIN rooms THEN rooms
                ELSE MapSet(rooms, room, [name |-> room, clients |-> <<>>])
    /\ clientRooms' = MapSet(clientRooms, id, room)

\* RegisterClient that enters every connection in the default room as well
RegisterClient_AlsoLobby(id, name, room, role) ==
    /\ clients' = MapSet(clients, id,
                     [userId |-> id, name |-> name, room |-> room, role |-> role])
    /\ rooms' = LET r1 == IF room \in DOMAIN rooms THEN rooms
                          ELSE MapSet(rooms, room, [name |-> room, clients |-> <<>>])
                    r2 == IF BINGO_MAIN \in DOMAIN r1 THEN r1
                          ELSE MapSet(r1, BINGO_MAIN,
                                      [name |-> BINGO_MAIN, clients |-> <<>>])
                    r3 == [r2 EXCEPT ![room].clients = SetAdd(@, id)]
                IN  [r3 EXCEPT ![BINGO_MAIN].clients = SetAdd(@, id)]
    /\ clientRooms' = MapSet(clientRooms, id, room)

\* handleWebSocket up to the return of the response: the connection is
\* stored in the registry, the directory and the index; handlers are set.
RegisterClient(id, name, room, role) ==
    /\ clients' = MapSet(clients, id,
                     [userId |-> id, name |-> name, room |-> room, role |-> role])
    /\ rooms' = LET rm == IF room \in DOMAIN rooms THEN rooms
                          ELSE MapSet(rooms, room, [name |-> room, clients |-> <<>>])
                IN  [rm EXCEPT ![room].clients = SetAdd(@, id)]
    /\ clientRooms' = MapSet(clientRooms, id, room)

\* handleWebSocket(req, clientId) for the query string p: the socket of the
\* upgrade is CONNECTING when the function returns
handleWebSocket(clientId, p) ==
    LET name == sanitizeInput(OrDefault(p.name, ANONYMOUS))
        room == sanitizeInput(OrDefault(p.room, BINGO_MAIN))
        role == sanitizeInput(OrDefault(p.role, PLAYER))
    IN  /\ RegisterClient(clientId, name, room, role)
        /\ sock' = [sock EXCEPT ![clientId] = "CONNECTING"]
        /\ out' = <<>>
        /\ lastOp' = [kind |-> "connect", id |-> clientId, room |-> room,
                      msg |-> NoMsg, was |-> sock[clientId]]

\* The ids generateClientId can return after nextId: a time stamp and nine
\* random characters.  They are never repeated in a run with uniqueIds; in a
\* run without, any id can come again.
generateClientId == IF uniqueIds THEN {nextId + 1} ELSE Ids

\* The upgrade branch of handleRequest: an id is generated and
\* handleWebSocket runs with it
Connect(p) ==
    /\ nextId <= MaxClients
    /\ handleWebSocket(nextId, p)
    /\ nextId' \in generateClientId
    /\ closeFired' = closeFired \ {nextId}
    /\ UNCHANGED <<lefts>>

\* handleRequest that upgrades a connection before it asks the rate limiter
handleRequest_UpgradeFirst(req, p, hasProcess) ==
    LET r == isRateLimited(req.ip)
        idle == /\ out' = <<>>
                /\ lastOp' = [kind |-> "request", id |-> NoId, room |-> <<>>,
                              msg |-> NoMsg, was |-> "NONE"]
                /\ UNCHANGED <<clients, rooms, clientRooms, sock, closeFired,
                               nextId, lefts>>
        report == [req |-> req, status |-> 200,
                   clients |-> Cardinality(DOMAIN clients),
                   rooms |-> Cardinality(DOMAIN rooms)]
    IN  /\ rateLimits' = r.rateLimits
        /\ admits' = CountCall(req.ip)
        /\ UNCHANGED <<now, uniqueIds, fifoVars>>
        /\ IF req.path = "/ws" /\ req.upgrade /\ nextId <= MaxClients
           THEN response' = Respond(req, IF r.limited THEN 429 ELSE 101)
                    /\ Connect(p)
           ELSE IF r.limited
           THEN response' = Respond(req, 429) /\ idle
           ELSE IF req.method = "OPTIONS"
           THEN response' = Respond(req, 200) /\ idle
           ELSE IF req.path = "/ws"
           THEN IF req.upgrade
                THEN response' = Respond(req, 101) /\ Connect(p)
                ELSE response' = Respond(req, 400) /\ idle
           ELSE IF req.path \in {"/health", "/stats"}
           THEN response' = (IF hasProcess THEN report ELSE Respond(req, 500))
                    /\ idle
           ELSE response' = Respond(req, 200) /\ idle

\* handleRequest that reports the registry size as the number of rooms
handleRequest_CountsClients(req, p, hasProcess) ==
    LET r == isRateLimited(req.ip)
        idle == /\ out' = <<>>
                /\ lastOp' = [kind |-> "request", id |-> NoId, room |-> <<>>,
                              msg |-> NoMsg, was |-> "NONE"]
                /\ UNCHANGED <<clients, rooms, clientRooms, sock, closeFired,
                               nextId, lefts>>
        report == [req |-> req, status |-> 200,
                   clients |-> Cardinality(DOMAIN clients),
                   rooms |-> Cardinality(DOMAIN clients)]
    IN  /\ rateLimits' = r.rateLimits
        /\ admits' = CountCall(req.ip)
        /\ UNCHANGED <<now, uniqueIds, fifoVars>>
        /\ IF r.limited
           THEN response' = Respond(req, 429) /\ idle
           ELSE IF req.method = "OPTIONS"
           THEN response' = Respond(req, 200) /\ idle
           ELSE IF req.path = "/ws"
           THEN IF req.upgrade
                THEN response' = Respond(req, 101) /\ Connect(p)
                ELSE response' = Respond(req, 400) /\ idle
           ELSE IF req.path \in {"/health", "/stats"}
           THEN response' = (IF hasProcess THEN report ELSE Respond(req, 500))
                    /\ idle
           ELSE response' = Respond(req, 200) /\ idle

\* handleRequest for the request req, the query string p of an upgrade, and
\* hasProcess telling whether the runtime defines the global process that
\* /health and /stats read the uptime from (a ReferenceError, answered with
\* status 500, when it does not)
handleRequest(req, p, hasProcess) ==
    LET r == isRateLimited(req.ip)
        idle == /\ out' = <<>>
                /\ lastOp' = [kind |-> "request", id |-> NoId, room |-> <<>>,
                              msg |-> NoMsg, was |-> "NONE"]
                /\ UNCHANGED <<clients, rooms, clientRooms, sock, closeFired,
                               nextId, lefts>>
        report == [req |-> req, status |-> 200,
                   clients |-> Cardinality(DOMAIN clients),
                   rooms |-> Cardinality(DOMAIN rooms)]
    IN  /\ rateLimits' = r.rateLimits
        /\ admits' = CountCall(req.ip)
        /\ UNCHANGED <<now, uniqueIds, fifoVars>>
        /\ IF r.limited
           THEN response' = Respond(req, 429) /\ idle
           ELSE IF req.method = "OPTIONS"
           THEN response' = Respond(req, 200) /\ idle
           ELSE IF req.path = "/ws"
           THEN IF req.upgrade
                THEN response' = Respond(req, 101) /\ Connect(p)
                ELSE response' = Respond(req, 400) /\ idle
           ELSE IF req.path \in {"/health", "/stats"}
           THEN response' = (IF hasProcess THEN report ELSE Respond(req, 500))
                    /\ idle
           ELSE response' = Respond(req, 200) /\ idle

\* OnOpen that sends the welcome frame through the room broadcast
OnOpen_WelcomeRoom(id) ==
    /\ sock[id] = "CONNECTING"
    /\ sock' = [sock EXCEPT ![id] = "OPEN"]
    /\ LET room == clients[id].room
           name == clients[id].name
       IN  /\ out' = << [to |-> id, frame |-> WelcomeFrame(room, id)] >>
                     \o broadcastToRoom(sock', clients, rooms, room, id,
                                        WelcomeFrame(room, id))
                     \o broadcastToRoom(sock', clients, rooms, room, id,
                           [type |-> "user-joined", userId |-> id, name |-> name,
                            users |-> getRoomUsers(clients, rooms, room)])
           /\ lastOp' = [kind |-> "open", id |-> id, room |-> room, msg |-> NoMsg,
                         was |-> sock[id]]
    /\ UNCHANGED <<clients, rooms, clientRooms, closeFired, nextId, lefts>>

\* OnOpen that notifies the room before it welcomes the connection
OnOpen_JoinedFirst(id) ==
    /\ sock[id] = "CONNECTING"
    /\ sock' = [sock EXCEPT ![id] = "OPEN"]
    /\ LET room == clients[id].room
           name == clients[id].name
       IN  /\ out' = broadcastToRoom(sock', clients, rooms, room, id,
                           [type |-> "user-joined", userId |-> id, name |-> name,
                            users |-> getRoomUsers(clients, rooms, room)])
                     \o << [to |-> id, frame |-> WelcomeFrame(room, id)] >>
           /\ lastOp' = [kind |-> "open", id |-> id, room |-> room, msg |-> NoMsg,
                         was |-> sock[id]]
    /\ UNCHANGED <<clients, rooms, clientRooms, closeFired, nextId, lefts>>

\* socket.onopen: welcome to the connection (its socket has just become
\* OPEN), user-joined to the others
OnOpen(id) ==
    /\ sock[id] = "CONNECTING"
    /\ sock' = [sock EXCEPT ![id] = "OPEN"]
    /\ LET room == clients[id].room
           name == clients[id].name
       IN  /\ out' = << [to |-> id, frame |-> WelcomeFrame(room, id)] >>
                     \o broadcastToRoom(sock', clients, rooms, room, id,
                           [type |-> "user-joined", userId |-> id, name |-> name,
                            users |-> getRoomUsers(clients, rooms, room)])
           /\ lastOp' = [kind |-> "open", id |-> id, room |-> room, msg |-> NoMsg,
                         was |-> sock[id]]
    /\ UNCHANGED <<clients, rooms, clientRooms, closeFired, nextId, lefts>>

\* Result of a handler that may throw: the frames accepted before the throw
Done(frames) == [out |-> frames, threw |-> FALSE]
Thrown(frames) == [out |-> frames, threw |-> TRUE]

\* handleBingoNumber that lets only an admin call a number
handleBingoNumber_AdminOnly(client, message) ==
    LET number == message.number
    IN  IF client.role # ADMIN
        THEN Done(SocketSend(client.userId, ErrorFrame("Admins only")))
        ELSE IF ~number.isNum \/ number.x10 < 10 \/ number.x10 > 900
        THEN Done(SocketSend(client.userId, ErrorFrame("Invalid bingo number")))
        ELSE Done(broadcastToRoom(sock, clients, rooms, client.room,
                    client.userId,
                    [type |-> "bingo-number", number |-> number,
                     calledBy |-> client.name]))

\* handleBingoNumber with the lower bound off by one (number < 0)
handleBingoNumber_LowerBound(client, message) ==
    LET number == message.number
    IN  IF ~number.isNum \/ number.x10 < 0 \/ number.x10 > 900
        THEN Done(SocketSend(client.userId, ErrorFrame("Invalid bingo number")))
        ELSE Done(broadcastToRoom(sock, clients, rooms, client.room,
                    client.userId,
                    [type |-> "bingo-number", number |-> number,
                     calledBy |-> client.name]))

handleBingoNumber(client, message) ==
    LET number == message.number
    IN  IF ~number.isNum \/ number.x10 < 10 \/ number.x10 > 900
        THEN Done(SocketSend(client.userId, ErrorFrame("Invalid bingo number")))
        ELSE Done(broadcastToRoom(sock, clients, rooms, client.room,
                    client.userId,
                    [type |-> "bingo-number", number |-> number,
                     calledBy |-> client.name]))

\* handleWinner that leaves the sender out of the broadcast
handleWinner_ExcludeSender(client, message) ==
    Done(broadcastToRoom(sock, clients, rooms, client.room, client.userId,
            [type |-> "winner", userId |-> client.userId,
             userName |-> client.name, winAmount |-> message.winAmount]))

handleWinner(client, message) ==
    Done(broadcastToRoom(sock, clients, rooms, client.room, NoId,
            [type |-> "winner", userId |-> client.userId,
             userName |-> client.name, winAmount |-> message.winAmount]))

\* handleRTCSignaling that spreads the frame over the from field
\* ({from: client.userId, ...message}): a from field of the frame wins
handleRTCSignaling_FromFirst(client, message, strict) ==
    LET target == message.target
        relayed == IF message.from # NoId THEN message
                   ELSE [message EXCEPT !.from = client.userId]
    IN  IF target = TargetBroadcast
        THEN Done(broadcastToRoom(sock, clients, rooms, client.room,
                                  client.userId, relayed))
        ELSE IF target # NoId
        THEN IF target \in DOMAIN clients /\ clients[target].room = client.room
             THEN IF SendThrows(target, strict) THEN Thrown(<<>>)
                  ELSE Done(SocketSend(target, relayed))
             ELSE Done(<<>>)
        ELSE Done(<<>>)

\* handleRTCSignaling that relays the frame with the from field it came with
handleRTCSignaling_KeepFrom(client, message, strict) ==
    LET target == message.target
    IN  IF target = TargetBroadcast
        THEN Done(broadcastToRoom(sock, clients, rooms, client.room,
                                  client.userId, message))
        ELSE IF target # NoId
        THEN IF target \in DOMAIN clients /\ clients[target].room = client.room
             THEN IF SendThrows(target, strict) THEN Thrown(<<>>)
                  ELSE Done(SocketSend(target, message))
             ELSE Done(<<>>)
        ELSE Done(<<>>)

\* handleRTCSignaling that answers a unicast routing miss with an error frame
handleRTCSignaling_MissIsError(client, message, strict) ==
    LET target == message.target
        relayed == [message EXCEPT !.from = client.userId]
    IN  IF target = TargetBroadcast
        THEN Done(broadcastToRoom(sock, clients, rooms, client.room,
                                  client.userId, relayed))
        ELSE IF target # NoId
        THEN IF target \in DOMAIN clients /\ clients[target].room = client.room
             THEN IF SendThrows(target, strict) THEN Thrown(<<>>)
                  ELSE Done(SocketSend(target, relayed))
             ELSE Done(SocketSend(client.userId, ErrorFrame("Target not found")))
        ELSE Done(<<>>)

\* handleRTCSignaling with the same-room test of the unicast branch left out
handleRTCSignaling_NoRoomCheck(client, message, strict) ==
    LET target == message.target
        relayed == [message EXCEPT !.from = client.userId]
    IN  IF target = TargetBroadcast
        THEN Done(broadcastToRoom(sock, clients, rooms, client.room,
                                  client.userId, relayed))
        ELSE IF target # NoId
        THEN IF target \in DOMAIN clients
             THEN IF SendThrows(target, strict) THEN Thrown(<<>>)
                  ELSE Done(SocketSend(target, relayed))
             ELSE Done(<<>>)
        ELSE Done(<<>>)

handleRTCSignaling(client, message, strict) ==
    LET target == message.target
        relayed == [message EXCEPT !.from = client.userId]
    IN  IF target = TargetBroadcast
        THEN Done(broadcastToRoom(sock, clients, rooms, client.room,
                                  client.userId, relayed))
        ELSE IF target # NoId
        THEN IF target \in DOMAIN clients /\ clients[target].room = client.room
             THEN IF SendThrows(target, strict) THEN Thrown(<<>>)
                  ELSE Done(SocketSend(target, relayed))
             ELSE Done(<<>>)
        ELSE Done(<<>>)

handleChatMessage(client, message) ==
    LET chatMessage == SanitizedChat[message.message]
    IN  IF Len(chatMessage) > MaxChatLength
        THEN Done(SocketSend(client.userId, ErrorFrame("Message too long")))
        ELSE Done(broadcastToRoom(sock, clients, rooms, client.room, NoId,
                    [type |-> "chat", userId |-> client.userId,
                     userName |-> client.name, message |-> chatMessage]))

sendRoomUsers(client) ==
    Done(SocketSend(client.userId,
            [type |-> "users", users |-> getRoomUsers(clients, rooms, client.room)]))

\* routeMessage whose ping case answers to the whole room
routeMessage_PingToRoom(client, in, strict) ==
    IF in.parse = "null" THEN Thrown(<<>>)
    ELSE LET message == in.body
         IN  CASE message.type = "ping" ->
                    Done(broadcastToRoom(sock, clients, rooms, client.room, NoId,
                                         [type |-> "pong"]))
               [] message.type = "join" -> Done(<<>>)
               [] message.type = "bingo-number" -> handleBingoNumber(client, message)
               [] message.type = "winner" -> handleWinner(client, message)
               [] message.type \in SignalTypes ->
                    handleRTCSignaling(client, message, strict)
               [] message.type = "chat" -> handleChatMessage(client, message)
               [] message.type = "get-users" -> sendRoomUsers(client)
               [] OTHER -> Done(<<>>)

\* routeMessage that answers a type it does not handle with an error frame
routeMessage_UnknownIsError(client, in, strict) ==
    IF in.parse = "null" THEN Thrown(<<>>)
    ELSE LET message == in.body
         IN  CASE message.type = "ping" ->
                    Done(SocketSend(client.userId, [type |-> "pong"]))
               [] message.type = "bingo-number" -> handleBingoNumber(client, message)
               [] message.type = "winner" -> handleWinner(client, message)
               [] message.type \in SignalTypes ->
                    handleRTCSignaling(client, message, strict)
               [] message.type = "chat" -> handleChatMessage(client, message)
               [] message.type = "get-users" -> sendRoomUsers(client)
               [] OTHER -> Done(SocketSend(client.userId,
                                           ErrorFrame("Unknown message type")))

\* The switch of handleWebSocketMessage on the type of the frame; reading the
\* type of the JSON value null throws
routeMessage(client, in, strict) ==
    IF in.parse = "null" THEN Thrown(<<>>)
    ELSE LET message == in.body
         IN  CASE message.type = "ping" ->
                    Done(SocketSend(client.userId, [type |-> "pong"]))
               [] message.type = "join" -> Done(<<>>)
               [] message.type = "bingo-number" -> handleBingoNumber(client, message)
               [] message.type = "winner" -> handleWinner(client, message)
               [] message.type \in SignalTypes ->
                    handleRTCSignaling(client, message, strict)
               [] message.type = "chat" -> handleChatMessage(client, message)
               [] message.type = "get-users" -> sendRoomUsers(client)
               [] OTHER -> Done(<<>>)

\* handleWebSocketMessage that routes a frame of an unregistered connection
\* as an anonymous player of the default room
handleWebSocketMessage_DefaultClient(clientId, in, strict) ==
    IF clientId \notin DOMAIN clients
    THEN routeMessage([userId |-> clientId, name |-> ANONYMOUS,
                       room |-> BINGO_MAIN, role |-> PLAYER], in, strict)
    ELSE routeMessage(clients[clientId], in, strict)

handleWebSocketMessage(clientId, in, strict) ==
    IF clientId \notin DOMAIN clients THEN Done(<<>>)
    ELSE routeMessage(clients[clientId], in, strict)

\* The ways the runtime can treat a send on a socket that is not open while
\* the frame in is handled: only the unicast relay sends on a socket other
\* than the sender's own.
SendModes(in) ==
    IF in.parse = "ok" /\ in.body.type \in SignalTypes
          /\ in.body.target \notin {NoId, TargetBroadcast}
    THEN BOOLEAN ELSE {FALSE}

\* socket.onmessage in which a join frame that names a room registers the
\* connection in that room
OnMessage_JoinMoves(id, in, strict) ==
    /\ sock[id] = "OPEN"
    /\ LET invalid == SocketSend(id, ErrorFrame("Invalid message format"))
           r == IF in.parse = "bad" THEN Thrown(<<>>)
                ELSE handleWebSocketMessage(id, in, strict)
       IN  out' = IF r.threw THEN r.out \o invalid ELSE r.out
    /\ lastOp' = [kind |-> "message", id |-> id,
                  room |-> IF id \in DOMAIN clients THEN clients[id].room ELSE <<>>,
                  msg |-> in, was |-> sock[id]]
    /\ IF in.parse = "ok" /\ in.body.type = "join" /\ "room" \in DOMAIN in.body
       THEN RegisterClient(id, clients[id].name, in.body.room, clients[id].role)
       ELSE UNCHANGED <<clients, rooms, clientRooms>>
    /\ UNCHANGED <<sock, closeFired, nextId, lefts>>

\* socket.onmessage that drops the connection it answers with an error frame
\* for an exception
OnMessage_ErrorCloses(id, in, strict) ==
    /\ sock[id] = "OPEN"
    /\ LET invalid == SocketSend(id, ErrorFrame("Invalid message format"))
           r == IF in.parse = "bad" THEN Thrown(<<>>)
                ELSE handleWebSocketMessage(id, in, strict)
       IN  /\ out' = IF r.threw THEN r.out \o invalid ELSE r.out
           /\ IF r.threw /\ id \in DOMAIN clients
              THEN /\ clients' = MapDelete(clients, id)
                   /\ rooms' = [rooms EXCEPT ![clients[id].room].clients =
                                           SetDelete(@, id)]
                   /\ clientRooms' = MapDelete(clientRooms, id)
              ELSE UNCHANGED <<clients, rooms, clientRooms>>
    /\ lastOp' = [kind |-> "message", id |-> id,
                  room |-> IF id \in DOMAIN clients THEN clients[id].room ELSE <<>>,
                  msg |-> in, was |-> sock[id]]
    /\ UNCHANGED <<sock, closeFired, nextId, lefts>>

\* socket.onmessage: parse, route; any exception is answered with an error
\* frame on the connection's own socket
OnMessage(id, in, strict) ==
    /\ sock[id] = "OPEN"
    /\ LET invalid == SocketSend(id, ErrorFrame("Invalid message format"))
           r == IF in.parse = "bad" THEN Thrown(<<>>)
                ELSE handleWebSocketMessage(id, in, strict)
       IN  out' = IF r.threw THEN r.out \o invalid ELSE r.out
    /\ lastOp' = [kind |-> "message", id |-> id,
                  room |-> IF id \in DOMAIN clients THEN clients[id].room ELSE <<>>,
                  msg |-> in, was |-> sock[id]]
    /\ UNCHANGED <<clients, rooms, clientRooms, sock, closeFired, nextId, lefts>>

\* LeaveRoom that keeps a room whose last member left
LeaveRoom_KeepEmpty(rm, room, id) ==
    IF room \in DOMAIN rm THEN [rm EXCEPT ![room].clients = SetDelete(@, id)] ELSE rm

\* LeaveRoom that does not take the id out of the member set
LeaveRoom_KeepMember(rm, room, id) == rm

\* roomObj.clients.delete(clientId), and rooms.delete(room) when it is empty
LeaveRoom(rm, room, id) ==
    IF room \notin DOMAIN rm THEN rm
    ELSE LET left == [rm EXCEPT ![room].clients = SetDelete(@, id)]
         IN  IF Len(left[room].clients) = 0 THEN MapDelete(left, room) ELSE left

\* handleClientDisconnect that notifies the room before it removes the
\* connection
handleClientDisconnect_NotifyFirst(clientId) ==
    IF clientId \notin DOMAIN clients
    THEN /\ out' = <<>>
         /\ UNCHANGED <<clients, rooms, clientRooms, lefts>>
    ELSE LET client == clients[clientId]
             room == client.room
         IN  /\ out' = broadcastToRoom(sock', clients, rooms, room, NoId,
                          [type |-> "user-left", userId |-> clientId,
                           name |-> client.name,
                           users |-> getRoomUsers(clients, rooms, room)])
             /\ rooms' = LeaveRoom(rooms, room, clientId)
             /\ clients' = MapDelete(clients, clientId)
             /\ clientRooms' = MapDelete(clientRooms, clientId)
             /\ lefts' = [lefts EXCEPT ![clientId] = @ + 1]

\* handleClientDisconnect with clients.delete(clientId) left out
handleClientDisconnect_KeepsEntry(clientId) ==
    IF clientId \notin DOMAIN clients
    THEN /\ out' = <<>>
         /\ UNCHANGED <<clients, rooms, clientRooms, lefts>>
    ELSE LET client == clients[clientId]
             room == client.room
             rm == LeaveRoom(rooms, room, clientId)
         IN  /\ rooms' = rm
             /\ clients' = clients
             /\ clientRooms' = MapDelete(clientRooms, clientId)
             /\ out' = broadcastToRoom(sock', clients, rm, room, NoId,
                          [type |-> "user-left", userId |-> clientId,
                           name |-> client.name,
                           users |-> getRoomUsers(clients, rm, room)])
             /\ lefts' = [lefts EXCEPT ![clientId] = IF @ < 2 THEN @ + 1 ELSE @]

handleClientDisconnect(clientId) ==
    IF clientId \notin DOMAIN clients
    THEN /\ out' = <<>>
         /\ UNCHANGED <<clients, rooms, clientRooms, lefts>>
    ELSE LET client == clients[clientId]
             room == client.room
             rm == LeaveRoom(rooms, room, clientId)
             cl == MapDelete(clients, clientId)
         IN  /\ rooms' = rm
             /\ clients' = cl
             /\ clientRooms' = MapDelete(clientRooms, clientId)
             /\ out' = broadcastToRoom(sock', cl, rm, room, NoId,
                          [type |-> "user-left", userId |-> clientId,
                           name |-> client.name,
                           users |-> getRoomUsers(cl, rm, room)])
             /\ lefts' = [lefts EXCEPT ![clientId] = @ + 1]

RoomBefore(id) == IF id \in DOMAIN clients THEN clients[id].room ELSE <<>>

\* socket.onerror: the handler only logs.  The transport has failed the
\* connection: readyState is CLOSED and the close event is still to come.
OnError(id) ==
    /\ sock[id] \in {"CONNECTING", "OPEN"}
    /\ sock' = [sock EXCEPT ![id] = "CLOSED"]
    /\ out' = <<>>
    /\ lastOp' = [kind |-> "error", id |-> id, room |-> RoomBefore(id),
                  msg |-> NoMsg, was |-> sock[id]]
    /\ UNCHANGED <<clients, rooms, clientRooms, closeFired, nextId, lefts>>

\* The closing handshake has started (a close frame was received or the idle
\* timeout expired): readyState is CLOSING, no handler runs.
StartClose(id) ==
    /\ sock[id] = "OPEN"
    /\ sock' = [sock EXCEPT ![id] = "CLOSING"]
    /\ out' = <<>>
    /\ lastOp' = [kind |-> "closing", id |-> id, room |-> RoomBefore(id),
                  msg |-> NoMsg, was |-> sock[id]]
    /\ UNCHANGED <<clients, rooms, clientRooms, closeFired, nextId, lefts>>

\* socket.onclose run for a connection whose socket stays as it was (the
\* connection is removed while its socket can still be open)
OnClose_KeepsSocket(id) ==
    /\ sock[id] \in {"OPEN", "CLOSING", "CLOSED"}
    /\ id \notin closeFired
    /\ sock' = sock
    /\ closeFired' = closeFired \cup {id}
    /\ handleClientDisconnect(id)
    /\ lastOp' = [kind |-> "close", id |-> id, room |-> RoomBefore(id),
                  msg |-> NoMsg, was |-> sock[id]]
    /\ UNCHANGED <<nextId>>

\* socket.onclose: the close event of a connection, dispatched once
OnClose(id) ==
    /\ sock[id] \in {"OPEN", "CLOSING", "CLOSED"}
    /\ id \notin closeFired
    /\ sock' = [sock EXCEPT ![id] = "CLOSED"]
    /\ closeFired' = closeFired \cup {id}
    /\ handleClientDisconnect(id)
    /\ lastOp' = [kind |-> "close", id |-> id, room |-> RoomBefore(id),
                  msg |-> NoMsg, was |-> sock[id]]
    /\ UNCHANGED <<nextId>>

\* A second close signal for a connection whose close was already handled
OnCloseAgain(id) ==
    /\ id \in closeFired
    /\ sock' = sock
    /\ handleClientDisconnect(id)
    /\ lastOp' = [kind |-> "close-again", id |-> id, room |-> RoomBefore(id),
                  msg |-> NoMsg, was |-> sock[id]]
    /\ UNCHANGED <<closeFired, nextId>>

\* Frames that can still be queued on a connection when its close is handled
LateMessages ==
    { Frame(Plain("ping")), Frame(Plain("get-users")),
      Frame(Body("bingo-number", Num(10), NoId, <<>>, 0, NoId)),
      Frame(Body("offer", NotNum, TargetBroadcast, <<>>, 0, NoId)),
      Frame(Body("chat", NotNum, NoId, <<"h","i">>, 0, NoId)),
      BadJson, JsonNull }

\* socket.onmessage for a frame dispatched after handleClientDisconnect has
\* removed the connection's registry entry: handleWebSocketMessage finds no
\* client, and the error answer to a parse failure goes to a closed socket
OnLateMessage(id, in) ==
    /\ id \in closeFired
    /\ id \notin DOMAIN clients
    /\ LET invalid == SocketSend(id, ErrorFrame("Invalid message format"))
           r == IF in.parse = "bad" THEN Thrown(<<>>)
                ELSE handleWebSocketMessage(id, in, FALSE)
       IN  out' = IF r.threw THEN r.out \o invalid ELSE r.out
    /\ lastOp' = [kind |-> "late-message", id |-> id, room |-> <<>>,
                  msg |-> in, was |-> sock[id]]
    /\ UNCHANGED <<clients, rooms, clientRooms, sock, closeFired, nextId, lefts>>

\* The relay: every connection comes in by an upgrade request of the same
\* origin, and the clock stands
Next ==
    \/ \E p \in Profiles(nextId) : handleRequest(WsRequest(UNKNOWN_ORIGIN), p, TRUE)
    \/ \E id \in Ids : OnOpen(id) /\ UNCHANGED <<httpVars, uniqueIds, fifoVars>>
    \/ \E id \in Ids, in \in Messages :
          \E strict \in SendModes(in) :
              OnMessage(id, in, strict) /\ UNCHANGED <<httpVars, uniqueIds, fifoVars>>
    \/ \E id \in Ids, in \in LateMessages :
          OnLateMessage(id, in) /\ UNCHANGED <<httpVars, uniqueIds, fifoVars>>
    \/ \E id \in Ids : OnError(id) /\ UNCHANGED <<httpVars, uniqueIds, fifoVars>>
    \/ \E id \in Ids : StartClose(id) /\ UNCHANGED <<httpVars, uniqueIds, fifoVars>>
    \/ \E id \in Ids : OnClose(id) /\ UNCHANGED <<httpVars, uniqueIds, fifoVars>>
    \/ \E id \in Ids : OnCloseAgain(id) /\ UNCHANGED <<httpVars, uniqueIds, fifoVars>>

Spec == Init /\ [][Next]_vars

\* The requests one origin makes in one window, and the time that passes
MaxCalls == 102
MaxOtherCalls == 3
MaxTicks == 3

CallsLeft(ip) ==
    IF ip \notin DOMAIN admits THEN TRUE
    ELSE IF now > admits[ip].start + WindowMs THEN TRUE
    ELSE admits[ip].calls < (IF ip = UNKNOWN_ORIGIN THEN MaxCalls ELSE MaxOtherCalls)

\* Half a window passes
Tick ==
    /\ now < MaxTicks * (WindowMs \div 2)
    /\ now' = now + (WindowMs \div 2)
    /\ UNCHANGED <<vars, rateLimits, response, admits, uniqueIds, fifoVars>>

\* The rate limiter under requests that do not touch the relay
RateRequests == { r \in Requests : r.path = "/health" /\ r.method = "GET" }

RateNext ==
    \/ \E req \in RateRequests, p \in Profiles(nextId) :
          CallsLeft(req.ip) /\ handleRequest(req, p, TRUE)
    \/ Tick

RateSpec == Init /\ [][RateNext]_allVars

\* The HTTP front with the connections it admits: upgrade, /health and
\* /stats requests of one origin within one window, and connections opening
FrontRequests == { r \in Requests : r.ip = UNKNOWN_ORIGIN }

RequestNext ==
    \/ \E req \in FrontRequests, p \in Profiles(nextId), hasProcess \in BOOLEAN :
          CallsLeft(req.ip) /\ handleRequest(req, p, hasProcess)
    \/ \E id \in Ids : OnOpen(id) /\ UNCHANGED <<httpVars, uniqueIds, fifoVars>>

RequestSpec == Init /\ [][RequestNext]_allVars

\* The role parameters an upgrade request can carry
RoleParams == { <<>>, ADMIN }

\* The run in which connection id came with the role parameter role: the
\* registry entry has that role, escaped, or the default, and nothing else is
\* different
OtherRole(id, role) ==
    /\ id \in DOMAIN clients
    /\ clients[id].role # sanitizeInput(OrDefault(role, PLAYER))
    /\ clients' = [clients EXCEPT ![id].role = sanitizeInput(OrDefault(role, PLAYER))]
    /\ out' = <<>>
    /\ lastOp' = [kind |-> "role", id |-> id, room |-> clients[id].room,
                  msg |-> NoMsg, was |-> sock[id]]
    /\ UNCHANGED <<rooms, clientRooms, sock, closeFired, nextId, lefts>>

\* Pairs of runs that differ in the roles of the connections only:
\* connections come and open, and a step of OtherRole passes from a state of
\* one run to the state of the other
RoleNext ==
    \/ \E p \in Profiles(nextId) : handleRequest(WsRequest(UNKNOWN_ORIGIN), p, TRUE)
    \/ \E id \in Ids : OnOpen(id) /\ UNCHANGED <<httpVars, uniqueIds, fifoVars>>
    \/ \E id \in Ids, role \in RoleParams :
          OtherRole(id, role) /\ UNCHANGED <<httpVars, uniqueIds, fifoVars>>

RoleSpec == Init /\ [][RoleNext]_allVars

\* Runs in which generateClientId can return an id again: connections of one
\* origin, opening and closing.  Of two connections with the same id the
\* registry and sock hold the later one.
CollisionInit == Boot /\ uniqueIds = FALSE

CollisionNext ==
    \/ \E p \in Profiles(nextId) :
          CallsLeft(OTHER_ORIGIN) /\ handleRequest(WsRequest(OTHER_ORIGIN), p, TRUE)
    \/ \E id \in Ids : OnOpen(id) /\ UNCHANGED <<httpVars, uniqueIds, fifoVars>>
    \/ \E id \in Ids : OnClose(id) /\ UNCHANGED <<httpVars, uniqueIds, fifoVars>>

CollisionSpec == CollisionInit /\ [][CollisionNext]_allVars

\* The number of inbound frames whose arrival and deliveries are recorded
MaxFrames == 3

\* The inbound frames of the recorded runs: an answer to the sender alone and
\* a broadcast to the room with and without the sender
FifoMessages ==
    { Frame(Plain("ping")),
      Frame(Body("chat", NotNum, NoId, <<"h","i">>, 0, NoId)),
      Frame(Body("offer", NotNum, TargetBroadcast, <<>>, 0, NoId)) }

\* Deliver that puts a frame before the frames the socket has accepted
Deliver_Prepend(box, frames, sender, n) ==
    [r \in Ids |->
        LET got == SelectSeq(frames, LAMBDA f : f.to = r)
        IN  [k \in 1..Len(got) |-> [from |-> sender, seq |-> n]] \o box[r]]

\* socket.send queues the frame behind the frames the socket has accepted
\* before: the frames a handler got accepted are added, in the order of the
\* sends, to the inboxes of the connections they went to, marked with the
\* sender and the arrival number n of the inbound frame
Deliver(box, frames, sender, n) ==
    [r \in Ids |->
        LET got == SelectSeq(frames, LAMBDA f : f.to = r)
        IN  box[r] \o [k \in 1..Len(got) |-> [from |-> sender, seq |-> n]]]

\* The message event of connection id for the inbound frame in: the frames
\* arrive one at a time and onmessage runs to completion for each
Arrive(id, in) ==
    /\ arrived < MaxFrames
    /\ OnMessage(id, in, FALSE)
    /\ arrived' = arrived + 1
    /\ inbox' = Deliver(inbox, out', id, arrived + 1)
    /\ UNCHANGED <<httpVars, uniqueIds>>

\* Connections come, open and send frames in any interleaving; every arrival
\* and every delivery is recorded
FifoNext ==
    \/ \E p \in Profiles(nextId) : handleRequest(WsRequest(UNKNOWN_ORIGIN), p, TRUE)
    \/ \E id \in Ids : OnOpen(id) /\ UNCHANGED <<httpVars, uniqueIds, fifoVars>>
    \/ \E id \in Ids, in \in FifoMessages : Arrive(id, in)

FifoSpec == Init /\ [][FifoNext]_allVars

\* The transport dispatches the close event of a socket whose readyState is
\* CLOSING or CLOSED: an error event and a closing handshake are both
\* followed by the close event.
PendingClose(id) ==
    sock[id] \in {"CLOSING", "CLOSED"} /\ OnClose(id)
        /\ UNCHANGED <<httpVars, uniqueIds, fifoVars>>

\* The connection lifecycle with a heartbeat and an unparsable frame as the
\* only inbound frames
LifecycleMessages == { Frame(Plain("ping")), BadJson }

LifecycleNext ==
    \/ \E p \in Profiles(nextId) : handleRequest(WsRequest(UNKNOWN_ORIGIN), p, TRUE)
    \/ \E id \in Ids : OnOpen(id) /\ UNCHANGED <<httpVars, uniqueIds, fifoVars>>
    \/ \E id \in Ids, in \in LifecycleMessages :
          OnMessage(id, in, FALSE) /\ UNCHANGED <<httpVars, uniqueIds, fifoVars>>
    \/ \E id \in Ids : OnError(id) /\ UNCHANGED <<httpVars, uniqueIds, fifoVars>>
    \/ \E id \in Ids : StartClose(id) /\ UNCHANGED <<httpVars, uniqueIds, fifoVars>>
    \/ \E id \in Ids : OnClose(id) /\ UNCHANGED <<httpVars, uniqueIds, fifoVars>>

FairSpec ==
    Init /\ [][LifecycleNext]_vars /\ \A id \in Ids : WF_vars(PendingClose(id))

----------------------------------------------------------------------------
\* Helpers of the properties

\* Every room name a request can produce
RoomNames == { sanitizeInput(OrDefault(r, BINGO_MAIN)) : r \in RoomParams }

\* Number of frames of the given type in o that were accepted by connection m
CountTo(o, m, type) ==
    Cardinality({ i \in 1..Len(o) : o[i].to = m /\ o[i].frame.type = type })

\* The ids of a users list, in order
UserIds(users) == [i \in 1..Len(users) |-> users[i].userId]

----------------------------------------------------------------------------
\* C1: the registry and the room directory are bidirectionally consistent in
\* every reachable state: every id in a room's member set has a registry
\* entry whose room is that room, and every registry entry's id is in the
\* member set of the room it names.
C1_Consistent ==
    /\ \A r \in DOMAIN rooms : \A id \in Members(r) :
           id \in DOMAIN clients /\ clients[id].room = r
    /\ \A id \in DOMAIN clients :
           clients[id].room \in DOMAIN rooms /\ id \in Members(clients[id].room)

\* two rooms are populated after a connection has been closed
C1_Witness ==
    /\ lastOp.kind = "close"
    /\ Cardinality(DOMAIN clients) = 2
    /\ Cardinality(DOMAIN rooms) = 2

\* C2: a connection id is in at most one room's member set.
C2_OneRoomPerId ==
    \A id \in Ids : Cardinality({ r \in DOMAIN rooms : id \in Members(r) }) <= 1

\* three connections are spread over two rooms
C2_Witness ==
    /\ Cardinality(DOMAIN rooms) = 2
    /\ Cardinality(DOMAIN clients) = 3

\* C3: a room exists in the directory exactly when it has members: its
\* member set is never empty, a room exists exactly when some connection of
\* the index is in it, and a join leaves its room existing with the joiner
\* in it.
C3_RoomIffMembers ==
    /\ \A r \in DOMAIN rooms : Len(rooms[r].clients) > 0
    /\ \A r \in RoomNames \cup DOMAIN rooms :
           r \in DOMAIN rooms <=> \E id \in DOMAIN clientRooms : clientRooms[id] = r
    /\ lastOp.kind = "connect" =>
           lastOp.room \in DOMAIN rooms /\ lastOp.id \in Members(lastOp.room)

\* the last member of a room has left while another room lives on
C3_Witness ==
    /\ lastOp.kind = "close"
    /\ lastOp.room \notin DOMAIN rooms
    /\ DOMAIN rooms # {}

\* C4: every frame sent by the open, message and close handlers goes to a
\* connection registered in the room of the connection the handler ran for.
C4_RoomIsolation ==
    lastOp.kind \in {"open", "message", "close"} =>
        \A i \in 1..Len(out) :
            /\ out[i].to \in DOMAIN clients
            /\ clients[out[i].to].room = lastOp.room

\* a chat reaches two members while a connection in another room is open
C4_Witness ==
    /\ lastOp.kind = "message"
    /\ lastOp.msg.body.type = "chat"
    /\ Len(out) = 2
    /\ \E id \in DOMAIN clients : sock[id] = "OPEN" /\ clients[id].room # lastOp.room

----------------------------------------------------------------------------
\* C5 as stated: when a connection's socket opens, every other connection
\* in its room's member set receives exactly one user-joined frame, whose
\* users list is the full member list of the room, and the new member
\* receives none.
JoinedStep(openOnly) ==
    lastOp.kind = "open" =>
        LET id == lastOp.id
            room == lastOp.room
        IN  /\ \A m \in Members(room) \ {id} :
                   CountTo(out, m, "user-joined") =
                       IF openOnly /\ sock[m] # "OPEN" THEN 0 ELSE 1
            /\ CountTo(out, id, "user-joined") = 0
            /\ \A i \in 1..Len(out) :
                   out[i].frame.type = "user-joined" =>
                       /\ out[i].to \in Members(room) \ {id}
                       /\ out[i].frame.userId = id
                       /\ out[i].frame.name = clients[id].name
                       /\ UserIds(out[i].frame.users) = rooms[room].clients
            /\ id \in Members(room)

C5_Original == JoinedStep(FALSE)

\* C5 amended: every other member whose socket is OPEN receives exactly one
\* user-joined frame with the full member list (the new member included);
\* the members whose socket is not OPEN and the new member receive none.
C5_JoinedToOpenMembers == JoinedStep(TRUE)

\* a connection opens in a room with one open and one still connecting member
C5_Witness ==
    /\ lastOp.kind = "open"
    /\ Cardinality(Members(lastOp.room)) = 3
    /\ CountTo(out, lastOp.id, "welcome") = 1
    /\ \E m \in Members(lastOp.room) : CountTo(out, m, "user-joined") = 1
    /\ \E m \in Members(lastOp.room) : sock[m] = "CONNECTING"

----------------------------------------------------------------------------
\* C6 as stated: when a connection closes, it leaves the registry, the index
\* and its room; if members remain, each of them receives exactly one
\* user-left frame naming the departed id with the remaining members as
\* users, and the room has one member less; if none remains, no frame is
\* sent and the room is gone.
LeftStep(openOnly) ==
    lastOp'.kind = "close" =>
        LET id == lastOp'.id
            room == lastOp'.room
            before == MembersOf(rooms, room)
            after == MembersOf(rooms', room)
        IN  /\ id \in before
            /\ id \notin DOMAIN clients'
            /\ id \notin DOMAIN clientRooms'
            /\ after = before \ {id}
            /\ IF before = {id}
               THEN out' = <<>> /\ room \notin DOMAIN rooms'
               ELSE /\ Len(rooms'[room].clients) = Len(rooms[room].clients) - 1
                    /\ \A m \in after :
                           CountTo(out', m, "user-left") =
                               IF openOnly /\ sock[m] # "OPEN" THEN 0 ELSE 1
                    /\ \A i \in 1..Len(out') :
                           /\ out'[i].to \in after
                           /\ out'[i].frame.type = "user-left"
                           /\ out'[i].frame.userId = id
                           /\ out'[i].frame.name = clients[id].name
                           /\ UserIds(out'[i].frame.users) = rooms'[room].clients

C6_Original == [][LeftStep(FALSE)]_vars

\* C6 amended: as C6, but the user-left frame goes exactly once to every
\* remaining member whose socket is OPEN and to no other connection.
C6_LeftToOpenMembers == [][LeftStep(TRUE)]_vars

\* a connection has closed leaving one open and one connecting member
C6_Witness ==
    /\ lastOp.kind = "close"
    /\ lastOp.room \in DOMAIN rooms
    /\ Len(out) = 1
    /\ out[1].frame.type = "user-left"
    /\ Cardinality(Members(lastOp.room)) = 2
    /\ \E m \in Members(lastOp.room) : sock[m] = "CONNECTING"

----------------------------------------------------------------------------
\* C7: a second close signal for a closed connection changes neither the
\* registry nor the directory nor the index and sends no frame, and for
\* every connection the user-left emission of handleClientDisconnect runs at
\* most once.
C7_CloseIdempotent ==
    [][ /\ lastOp'.kind = "close-again" =>
              /\ clients' = clients
              /\ rooms' = rooms
              /\ clientRooms' = clientRooms
              /\ out' = <<>>
        /\ \A id \in Ids : lefts'[id] <= 1 ]_vars

\* a second close signal arrives while another connection is open
C7_Witness ==
    /\ lastOp.kind = "close-again"
    /\ lefts[lastOp.id] = 1
    /\ \E m \in DOMAIN clients : sock[m] = "OPEN"

----------------------------------------------------------------------------
\* C8: after a close event or an error event on a connection, the
\* connection is eventually absent from the registry, the index and every
\* member set, with the user-left emission done, and that emission is done
\* at most once.
Gone(id) ==
    /\ id \notin DOMAIN clients
    /\ id \notin DOMAIN clientRooms
    /\ \A r \in DOMAIN rooms : id \notin Members(r)
    /\ lefts[id] = 1

C8_ErrorWitness ==
    /\ lastOp.kind = "error"
    /\ lastOp.was = "OPEN"
    /\ lastOp.id \in DOMAIN clients

----------------------------------------------------------------------------
\* C9: a welcome frame is sent only by the open handler, exactly one per
\* run, to the opening connection itself with its own id as userId; the
\* open handler runs only when a socket goes from CONNECTING to OPEN, and a
\* socket that has left CONNECTING never is CONNECTING again.
C9_OneWelcome ==
    /\ [](/\ \A i \in 1..Len(out) :
                out[i].frame.type = "welcome" =>
                    /\ lastOp.kind = "open"
                    /\ out[i].to = lastOp.id
                    /\ out[i].frame.userId = lastOp.id
          /\ lastOp.kind = "open" =>
                /\ CountTo(out, lastOp.id, "welcome") = 1
                /\ lastOp.was = "CONNECTING"
                /\ sock[lastOp.id] = "OPEN")
    /\ [][\A id \in Ids :
              /\ sock'[id] = "CONNECTING" => sock[id] \in {"NONE", "CONNECTING"}
              /\ (sock[id] # "OPEN" /\ sock'[id] = "OPEN") =>
                     lastOp'.kind = "open" /\ lastOp'.id = id]_vars

\* a connection has opened in a room with two open members
C9_Witness ==
    /\ lastOp.kind = "open"
    /\ Len(out) = 3
    /\ out[1].frame.type = "welcome"

----------------------------------------------------------------------------
\* C10 as stated: a bingo-number frame with number 0, 91 or a non-numeric
\* value yields exactly one error frame to the sender and nothing else; one
\* with an integer number from 1 to 90 yields no error and exactly one
\* bingo-number frame, tagged with the sender's name, to each other member
\* of the sender's room and none to the sender.
BingoStep(openOnly) ==
    (lastOp.kind = "message" /\ lastOp.msg.parse = "ok"
        /\ lastOp.msg.body.type = "bingo-number") =>
        LET id == lastOp.id
            number == lastOp.msg.body.number
        IN  /\ (~number.isNum \/ number.x10 = 0 \/ number.x10 = 910) =>
                   /\ Len(out) = 1
                   /\ out[1].to = id
                   /\ out[1].frame.type = "error"
            /\ (number.isNum /\ number.x10 % 10 = 0
                  /\ number.x10 >= 10 /\ number.x10 <= 900) =>
                   /\ \A m \in Members(lastOp.room) \ {id} :
                          CountTo(out, m, "bingo-number") =
                              IF openOnly /\ sock[m] # "OPEN" THEN 0 ELSE 1
                   /\ \A i \in 1..Len(out) :
                          /\ out[i].to \in Members(lastOp.room) \ {id}
                          /\ out[i].frame.type = "bingo-number"
                          /\ out[i].frame.number = number
                          /\ out[i].frame.calledBy = clients[id].name

C10_Original == BingoStep(FALSE)

\* C10 amended: as C10, but an accepted bingo-number frame goes exactly once
\* to each other member whose socket is OPEN and to no other connection.
C10_BingoToOpenMembers == BingoStep(TRUE)

\* the number 90 has been relayed to one open member of a room that also
\* holds a member that is not open
C10_Witness ==
    /\ lastOp.kind = "message"
    /\ lastOp.msg.body.type = "bingo-number"
    /\ lastOp.msg.body.number = Num(900)
    /\ Len(out) = 1
    /\ Cardinality(Members(lastOp.room)) = 3

\* the number 0 has been answered with an error frame
C10_ErrorWitness ==
    /\ lastOp.kind = "message"
    /\ lastOp.msg.body.type = "bingo-number"
    /\ lastOp.msg.body.number = Num(0)
    /\ Len(out) = 1
    /\ Cardinality(Members(lastOp.room)) >= 2

----------------------------------------------------------------------------
\* The last handler ran for a parsed inbound frame of the given type
IsMessage(type) ==
    lastOp.kind = "message" /\ lastOp.msg.parse = "ok"
        /\ lastOp.msg.body.type = type

\* The frames of o that are of type "error"
ErrorCount(o) == Cardinality({ i \in 1..Len(o) : o[i].frame.type = "error" })

\* C11: a bingo-number frame is broadcast only when its number is an integer
\* in [1,90]; a number inside the range that is not an integer is answered
\* with one error frame to the sender and is not broadcast.
C11_IntegerOnly ==
    IsMessage("bingo-number") =>
        LET number == lastOp.msg.body.number
            whole == number.isNum /\ number.x10 % 10 = 0
                        /\ number.x10 >= 10 /\ number.x10 <= 900
        IN  /\ \A i \in 1..Len(out) : out[i].frame.type = "bingo-number" => whole
            /\ (number.isNum /\ number.x10 >= 10 /\ number.x10 <= 900 /\ ~whole) =>
                   /\ Len(out) = 1
                   /\ out[1].to = lastOp.id
                   /\ out[1].frame.type = "error"

----------------------------------------------------------------------------
\* C12: a chat frame whose text payload has at most 500 characters, whatever
\* they are, yields one chat frame to every member of the sender's room, the
\* sender included, and no error frame; a longer one yields one error frame
\* to the sender and nothing else.
C12_ChatByPayloadLength ==
    IsMessage("chat") =>
        LET text == lastOp.msg.body.message
        IN  IF Len(text) <= MaxChatLength
            THEN /\ ErrorCount(out) = 0
                 /\ \A m \in Members(lastOp.room) : CountTo(out, m, "chat") = 1
            ELSE /\ Len(out) = 1
                 /\ out[1].to = lastOp.id
                 /\ out[1].frame.type = "error"

----------------------------------------------------------------------------
\* The last handler ran for a parsed signaling frame
IsSignal ==
    lastOp.kind = "message" /\ lastOp.msg.parse = "ok"
        /\ lastOp.msg.body.type \in SignalTypes

\* The frame a signaling frame is relayed as: the inbound frame with its from
\* field set to the sender's id
Relayed == [lastOp.msg.body EXCEPT !.from = lastOp.id]

\* C13 as stated: a signaling frame whose target is "broadcast" is relayed
\* exactly once to every other member of the sender's room, with from set to
\* the sender's id, and not to the sender.
SignalBroadcastStep(openOnly) ==
    (IsSignal /\ lastOp.msg.body.target = TargetBroadcast) =>
        LET id == lastOp.id
        IN  /\ \A m \in Members(lastOp.room) \ {id} :
                   Cardinality({ i \in 1..Len(out) : out[i].to = m }) =
                       IF openOnly /\ sock[m] # "OPEN" THEN 0 ELSE 1
            /\ \A i \in 1..Len(out) :
                   /\ out[i].to \in Members(lastOp.room) \ {id}
                   /\ out[i].frame = Relayed

C13_Original == SignalBroadcastStep(FALSE)

\* C13 amended: a signaling frame whose target is "broadcast" is relayed
\* exactly once, with from set to the sender's id, to each other member of
\* the sender's room whose socket is OPEN, and to no other connection.
C13_SignalToOpenMembers == SignalBroadcastStep(TRUE)

\* an answer that came with another connection's id in its from field has been
\* relayed to the two other members of the sender's room
C13_Witness ==
    /\ IsSignal
    /\ lastOp.msg.body.target = TargetBroadcast
    /\ lastOp.msg.body.from \notin {NoId, lastOp.id}
    /\ Len(out) = 2

----------------------------------------------------------------------------
\* The last handler ran for a signaling frame addressed to one connection
IsUnicast ==
    IsSignal /\ lastOp.msg.body.target \notin {NoId, TargetBroadcast}

\* C14: a signaling frame addressed to one connection is delivered to at most
\* one connection, which is the target, and only if the target is registered
\* and in the sender's room; no other connection receives it.
C14_UnicastToTargetOnly ==
    IsUnicast =>
        LET target == lastOp.msg.body.target
            relays == { i \in 1..Len(out) : out[i].frame.type \in SignalTypes }
        IN  /\ Cardinality(relays) <= 1
            /\ \A i \in relays :
                   /\ out[i].to = target
                   /\ out[i].frame = Relayed
                   /\ target \in DOMAIN clients
                   /\ clients[target].room = lastOp.room
            /\ \A i \in 1..Len(out) \ relays :
                   out[i].to = lastOp.id /\ out[i].frame.type = "error"

\* an offer has been delivered to its target while a third member of the room
\* was open as well
C14_Witness ==
    /\ IsUnicast
    /\ Len(out) = 1
    /\ out[1].to = lastOp.msg.body.target
    /\ out[1].to # lastOp.id
    /\ \E m \in Members(lastOp.room) \ {lastOp.id, out[1].to} : sock[m] = "OPEN"

----------------------------------------------------------------------------
\* C15: when the target of a unicast signaling frame is not in the registry
\* or is in another room, the frame is delivered to nobody, the sender gets
\* no error frame, and the registry and the room directory do not change.
C15_MissIsSilent ==
    [][ (/\ lastOp'.kind = "message"
         /\ lastOp'.msg.parse = "ok"
         /\ lastOp'.msg.body.type \in SignalTypes
         /\ lastOp'.msg.body.target \notin {NoId, TargetBroadcast}
         /\ \/ lastOp'.msg.body.target \notin DOMAIN clients
            \/ clients[lastOp'.msg.body.target].room # clients[lastOp'.id].room)
        => /\ out' = <<>>
           /\ UNCHANGED <<clients, rooms, clientRooms>> ]_vars

\* an offer addressed to an open connection of another room has been handled
C15_Witness ==
    /\ IsUnicast
    /\ lastOp.msg.body.target \in DOMAIN clients
    /\ clients[lastOp.msg.body.target].room # lastOp.room
    /\ sock[lastOp.msg.body.target] = "OPEN"
    /\ out = <<>>

\* an offer addressed to an id that was never registered has been handled
C15_UnknownWitness ==
    /\ IsUnicast
    /\ lastOp.msg.body.target = TargetUnknown
    /\ Cardinality(Members(lastOp.room)) >= 2
    /\ out = <<>>

----------------------------------------------------------------------------
\* C16 as stated: a winner frame yields exactly one winner frame, carrying
\* the sender's id and display name, to every member of the sender's room,
\* the sender included.
WinnerStep(openOnly) ==
    IsMessage("winner") =>
        LET id == lastOp.id
        IN  /\ \A m \in Members(lastOp.room) :
                   CountTo(out, m, "winner") =
                       IF openOnly /\ sock[m] # "OPEN" THEN 0 ELSE 1
            /\ \A i \in 1..Len(out) :
                   /\ out[i].to \in Members(lastOp.room)
                   /\ out[i].frame.type = "winner"
                   /\ out[i].frame.userId = id
                   /\ out[i].frame.userName = clients[id].name

C16_Original == WinnerStep(FALSE)

\* C16 amended: a winner frame yields exactly one winner frame, carrying the
\* sender's id and display name, to each member of the sender's room whose
\* socket is OPEN, the sender included, and to no other connection.
C16_WinnerToOpenMembers == WinnerStep(TRUE)

\* a winner frame has reached the sender and one other member of a room of
\* three
C16_Witness ==
    /\ IsMessage("winner")
    /\ Len(out) = 2
    /\ Cardinality(Members(lastOp.room)) = 3
    /\ \E i \in 1..2 : out[i].to = lastOp.id

----------------------------------------------------------------------------
\* C17: a ping yields exactly one pong frame to the sender and no frame to
\* any other connection.
C17_PingPong ==
    IsMessage("ping") =>
        out = << [to |-> lastOp.id, frame |-> [type |-> "pong"]] >>

\* a ping has been answered while another member of the room was open
C17_Witness ==
    /\ IsMessage("ping")
    /\ Len(out) = 1
    /\ \E m \in Members(lastOp.room) \ {lastOp.id} : sock[m] = "OPEN"

----------------------------------------------------------------------------
\* C18: a get-users frame yields exactly one reply, to the sender only, whose
\* users list holds exactly the ids of the member set of the sender's room.
C18_UsersAreMembers ==
    IsMessage("get-users") =>
        /\ Len(out) = 1
        /\ out[1].to = lastOp.id
        /\ out[1].frame.type = "users"
        /\ LET ids == UserIds(out[1].frame.users)
           IN  /\ { ids[i] : i \in 1..Len(ids) } = Members(lastOp.room)
               /\ Len(ids) = Cardinality(Members(lastOp.room))

\* a users list has been sent for a room with a member that is open and a
\* member that is not
C18_Witness ==
    /\ IsMessage("get-users")
    /\ Len(out) = 1
    /\ \E m \in Members(lastOp.room) \ {lastOp.id} : sock[m] = "OPEN"
    /\ \E m \in Members(lastOp.room) : sock[m] # "OPEN"

----------------------------------------------------------------------------
\* The types handleWebSocketMessage acts on
HandledTypes ==
    {"ping", "bingo-number", "winner", "chat", "get-users"} \cup SignalTypes

\* C19: a well-formed frame whose type is none of ping, bingo-number, winner,
\* offer, answer, ice-candidate, chat and get-users is ignored: no frame is
\* sent, no error either, and the registry and the room directory do not
\* change.
C19_OtherTypesIgnored ==
    [][ (/\ lastOp'.kind = "message"
         /\ lastOp'.msg.parse = "ok"
         /\ lastOp'.msg.body.type \notin HandledTypes)
        => /\ out' = <<>>
           /\ UNCHANGED <<clients, rooms, clientRooms>> ]_vars

\* a reset-game frame has been handled in a room with another open member
C19_Witness ==
    /\ IsMessage("reset-game")
    /\ out = <<>>
    /\ \E m \in Members(lastOp.room) \ {lastOp.id} : sock[m] = "OPEN"

\* a join frame has been handled in a room with another open member
C19_JoinWitness ==
    /\ IsMessage("join")
    /\ out = <<>>
    /\ \E m \in Members(lastOp.room) \ {lastOp.id} : sock[m] = "OPEN"

----------------------------------------------------------------------------
\* C20: routing a frame whose sender id is not in the registry sends no frame
\* and changes no state.
C20_UnregisteredSenderIgnored ==
    [][ (/\ lastOp'.kind = "late-message"
         /\ lastOp'.msg.parse # "bad"
         /\ lastOp'.id \notin DOMAIN clients)
        => /\ out' = <<>>
           /\ UNCHANGED <<clients, rooms, clientRooms, sock, closeFired, nextId>> ]_vars

\* a chat frame of a removed connection has been routed while the default
\* room had an open member
C20_Witness ==
    /\ lastOp.kind = "late-message"
    /\ lastOp.msg.parse = "ok"
    /\ lastOp.msg.body.type = "chat"
    /\ lastOp.id \notin DOMAIN clients
    /\ \E m \in Members(BINGO_MAIN) : sock[m] = "OPEN"
    /\ out = <<>>

----------------------------------------------------------------------------
\* An inbound frame that is malformed or invalid: unparsable, a bingo number
\* that is no number or outside 1..90, a chat text of more than 500 characters
Malformed(in) ==
    \/ in.parse # "ok"
    \/ /\ in.body.type = "bingo-number"
       /\ \/ ~in.body.number.isNum
          \/ in.body.number.x10 < 10
          \/ in.body.number.x10 > 900
    \/ /\ in.body.type = "chat"
       /\ Len(in.body.message) > MaxChatLength

\* C21: every error frame goes only to the connection whose own inbound
\* frame, the one being handled, was malformed or invalid; no other
\* connection gets an error frame.
C21_ErrorsOnlyToOffender ==
    \A i \in 1..Len(out) :
        out[i].frame.type = "error" =>
            /\ lastOp.kind \in {"message", "late-message"}
            /\ out[i].to = lastOp.id
            /\ Malformed(lastOp.msg)

----------------------------------------------------------------------------
\* The last handler broadcast a frame to its room: the type of that frame and
\* the member left out, or "" when the handler did not broadcast
Broadcast ==
    LET none == [type |-> "", exclude |-> NoId]
        body == lastOp.msg.body
    IN  IF lastOp.kind = "open"
        THEN [type |-> "user-joined", exclude |-> lastOp.id]
        ELSE IF lastOp.kind # "message" \/ lastOp.msg.parse # "ok" THEN none
        ELSE IF body.type = "winner" THEN [type |-> "winner", exclude |-> NoId]
        ELSE IF body.type = "bingo-number" /\ body.number.isNum
                  /\ body.number.x10 >= 10 /\ body.number.x10 <= 900
        THEN [type |-> "bingo-number", exclude |-> lastOp.id]
        ELSE IF body.type = "chat"
                  /\ Len(SanitizedChat[body.message]) <= MaxChatLength
        THEN [type |-> "chat", exclude |-> NoId]
        ELSE IF body.type \in SignalTypes /\ body.target = TargetBroadcast
        THEN [type |-> body.type, exclude |-> lastOp.id]
        ELSE none

\* C22: a broadcast is attempt-all: whatever members of the room cannot be
\* sent to, every other member that is eligible (not left out, socket OPEN)
\* receives the frame exactly once, and no error frame is sent because of
\* the members that were skipped.
C22_AttemptAll ==
    Broadcast.type # "" =>
        /\ \A m \in Members(lastOp.room) \ {Broadcast.exclude} :
               sock[m] = "OPEN" => CountTo(out, m, Broadcast.type) = 1
        /\ ErrorCount(out) = 0

\* a frame has been broadcast to a member that comes after a member whose
\* socket is not open in the iteration order of the room
C22_Witness ==
    /\ Broadcast.type # ""
    /\ lastOp.room \in DOMAIN rooms
    /\ LET mem == rooms[lastOp.room].clients
       IN  \E i, j \in 1..Len(mem) :
              /\ i < j
              /\ mem[i] # Broadcast.exclude
              /\ sock[mem[i]] # "OPEN"
              /\ CountTo(out, mem[j], Broadcast.type) = 1

----------------------------------------------------------------------------
\* The last request was let in by the rate limiter
Admitted == response.status \notin {0, 429}

\* C23: from no bucket for an origin, the first 100 calls for the origin in
\* one window are admitted and every later call in the window is rejected;
\* the first call after the window has elapsed is admitted and leaves the
\* bucket with count 1 and a new window boundary.
C23_HundredPerWindow ==
    response.status # 0 =>
        LET ip == response.req.ip
        IN  /\ Admitted <=> admits[ip].calls <= RateCeiling
            /\ admits[ip].calls = 1 =>
                   rateLimits[ip] = [count |-> 1,
                                     resetTime |-> admits[ip].start + WindowMs]

\* the 101st call of a window has been rejected
C23_Witness ==
    /\ response.status = 429
    /\ admits[response.req.ip].calls = RateCeiling + 1

\* the first call after a window with rejected calls has been admitted
C23_NextWindowWitness ==
    /\ Admitted
    /\ admits[response.req.ip].calls = 1
    /\ admits[response.req.ip].full

----------------------------------------------------------------------------
\* C24: no bucket's count exceeds the ceiling of 100: after an admitted call
\* the count of the origin's bucket is between 1 and 100, and an expired
\* bucket is replaced by a fresh one with count 1, never counted down.
C24_CountWithinCeiling ==
    /\ [](\A ip \in DOMAIN rateLimits :
             rateLimits[ip].count >= 1 /\ rateLimits[ip].count <= RateCeiling)
    /\ [][ \A ip \in DOMAIN rateLimits :
              rateLimits'[ip] # rateLimits[ip] =>
                  IF now > rateLimits[ip].resetTime
                  THEN rateLimits'[ip] = [count |-> 1, resetTime |-> now + WindowMs]
                  ELSE rateLimits'[ip] =
                           [rateLimits[ip] EXCEPT !.count = @ + 1] ]_allVars

\* an expired bucket that was at the ceiling has been replaced
C24_Witness ==
    /\ Admitted
    /\ admits[response.req.ip].full
    /\ rateLimits[response.req.ip].count = 1
    /\ rateLimits[response.req.ip].resetTime =
           admits[response.req.ip].start + WindowMs
    /\ admits[response.req.ip].start > WindowMs

\* a bucket stands at the ceiling after an admitted call
C24_CeilingWitness ==
    /\ Admitted
    /\ rateLimits[response.req.ip].count = RateCeiling

----------------------------------------------------------------------------
\* A step in which handleRequest served a request
Served == admits' # admits

\* C25: a connection request rejected by the rate limiter creates no
\* connection state: registry, directory and client-to-room index stay as
\* they are, no id is registered or used up, and no frame is sent.
C25_RejectedCreatesNothing ==
    [][ (Served /\ response'.status = 429)
        => /\ UNCHANGED <<clients, rooms, clientRooms, sock, nextId>>
           /\ out' = <<>>
           /\ lastOp'.kind = "request" ]_allVars

\* an upgrade request has been rejected while a connection was open and an
\* id was left to give
C25_Witness ==
    /\ response.status = 429
    /\ response.req.path = "/ws"
    /\ lastOp.kind = "request"
    /\ nextId <= MaxClients
    /\ \E id \in DOMAIN clients : sock[id] = "OPEN"

----------------------------------------------------------------------------
\* A step in which handleRequest served /health or /stats
Observed == Served /\ response'.req.path \in {"/health", "/stats"}

\* what C30 says of the registry, the directory and the report
ObservedCore ==
    /\ UNCHANGED <<clients, rooms, clientRooms, sock>>
    /\ out' = <<>>
    /\ response'.status \in {200, 429, 500}
    /\ response'.status = 200 =>
           /\ response'.clients = Cardinality(DOMAIN clients)
           /\ response'.rooms = Cardinality(DOMAIN rooms)

\* C30: serving /health or /stats leaves the registry, the directory and the
\* rate-limit buckets as they were, and the reported clients and rooms
\* numbers are the registry size and the directory size.
C30_ReadOnly ==
    [][ Observed => (ObservedCore /\ UNCHANGED rateLimits) ]_allVars

\* What handleRequest keeps of C30: the registry, the directory and the
\* client-to-room index are as they were and no frame is sent; the request is
\* counted by the rate limiter like any other, so the bucket of its origin
\* changes unless the request is rejected; a report, when one is produced,
\* gives the registry size and the directory size of that moment.
C30_ReadOnlyButCounted ==
    [][ Observed =>
          /\ ObservedCore
          /\ (response'.status = 429) <=> (rateLimits' = rateLimits) ]_allVars

\* a report has been produced for two rooms with three connections
C30_Witness ==
    /\ lastOp.kind = "request"
    /\ response.req.path \in {"/health", "/stats"}
    /\ response.status = 200
    /\ response.clients = 3
    /\ response.rooms = 2

----------------------------------------------------------------------------
\* C26: registering a connection whose id is already in the registry fails:
\* the existing registry entry is not overwritten and no room member set
\* changes.
C26_DuplicateIdRejected ==
    [][ (Served /\ lastOp'.kind = "connect" /\ lastOp'.id \in DOMAIN clients)
        => /\ clients'[lastOp'.id] = clients[lastOp'.id]
           /\ rooms' = rooms ]_allVars

----------------------------------------------------------------------------
\* C27: the room of a connection never changes between its registration and
\* its removal: no step, and so no inbound frame of any type, a join frame
\* included, moves a registered connection to another room or enters it in
\* a second room.
C27_RoomFixed ==
    [][ \A id \in DOMAIN clients \cap DOMAIN clients' :
           /\ clients'[id].room = clients[id].room
           /\ clientRooms'[id] = clientRooms[id]
           /\ \A r \in DOMAIN rooms' :
                  id \in MembersOf(rooms', r) => r = clients[id].room ]_vars

\* a join frame that names another room, one that exists, has been handled
C27_Witness ==
    /\ IsMessage("join")
    /\ "room" \in DOMAIN lastOp.msg.body
    /\ lastOp.msg.body.room # lastOp.room
    /\ lastOp.msg.body.room \in DOMAIN rooms
    /\ clients[lastOp.id].room = lastOp.room
    /\ lastOp.id \in Members(lastOp.room)
    /\ out = <<>>

----------------------------------------------------------------------------
\* The roles a connection can declare
Roles == {PLAYER, ADMIN, SPECTATOR}

\* C28: the role of every registry entry is one of player, admin and
\* spectator, whatever role the connecting client supplied.
C28_RoleDeclared == \A id \in DOMAIN clients : clients[id].role \in Roles

----------------------------------------------------------------------------
\* The recipient and the frame type of each frame of o, in order
Deliveries(o) == [i \in 1..Len(o) |-> [to |-> o[i].to, type |-> o[i].frame.type]]

\* The frames onmessage sends for the inbound frame in of connection id
Delivered(id, in, strict) ==
    LET invalid == SocketSend(id, ErrorFrame("Invalid message format"))
        r == IF in.parse = "bad" THEN Thrown(<<>>)
             ELSE handleWebSocketMessage(id, in, strict)
    IN  IF r.threw THEN r.out \o invalid ELSE r.out

\* Inbound frames of every type and target, with one chat text and two
\* bingo numbers
RoutedMessages ==
    { m \in Messages :
        m.parse = "ok" =>
            /\ m.body.type = "chat" => m.body.message = <<"h","i">>
            /\ m.body.type = "bingo-number" => m.body.number \in {Num(0), Num(450)} }

\* C29: routing does not depend on role: in two runs that differ only in the
\* roles of the connections, every inbound frame of every open connection
\* has the same deliveries (same recipients, same frame types, same order).
C29_RoutingIgnoresRole ==
    [][ lastOp'.kind = "role" =>
          \A id \in Ids, in \in RoutedMessages :
              sock[id] = "OPEN" =>
                  \A strict \in SendModes(in) :
                      Deliveries(Delivered(id, in, strict)) =
                          (Deliveries(Delivered(id, in, strict)))' ]_allVars

\* the other run has an admin where this one had none, open in a room with
\* another open connection
C29_Witness ==
    /\ lastOp.kind = "role"
    /\ clients[lastOp.id].role = ADMIN
    /\ sock[lastOp.id] = "OPEN"
    /\ \E m \in Members(lastOp.room) \ {lastOp.id} :
           sock[m] = "OPEN" /\ clients[m].role # ADMIN
----------------------------------------------------------------------------
\* The types of the frames that go out through broadcastToRoom
BroadcastTypes ==
    {"chat", "winner", "bingo-number", "user-joined", "user-left"} \cup SignalTypes

\* C31: within one broadcast each recipient receives the frame at most once.
\* A handler runs to completion, so no connection joins or leaves the room
\* between two sends of one broadcast; the frames of one handler are out.
C31_AtMostOnce ==
    \A i, j \in 1..Len(out) :
        (out[i].frame.type \in BroadcastTypes /\ out[i].to = out[j].to
            /\ out[i].frame.type = out[j].frame.type) => i = j

\* a chat frame has reached the two members of a room after a third
\* connection has left
C31_Witness ==
    /\ lastOp.kind = "message"
    /\ lastOp.msg.body.type = "chat"
    /\ Len(out) = 2
    /\ \E id \in Ids : lefts[id] > 0
    /\ \A m \in Members(lastOp.room) : CountTo(out, m, "chat") = 1

----------------------------------------------------------------------------
\* C32: a failed send to the target of a unicast signaling frame is a drop:
\* when the target is registered in the sender's room and its socket is not
\* open, the relay delivers nothing and the sender gets no error frame.
C32_FailedUnicastIsDrop ==
    [][ (/\ lastOp'.kind = "message"
         /\ lastOp'.msg.parse = "ok"
         /\ lastOp'.msg.body.type \in SignalTypes
         /\ lastOp'.msg.body.target \in DOMAIN clients
         /\ clients[lastOp'.msg.body.target].room = clients[lastOp'.id].room
         /\ sock[lastOp'.msg.body.target] # "OPEN")
        => out' = <<>> ]_vars

----------------------------------------------------------------------------
\* C34: a rejected call of isRateLimited leaves the bucket of its origin as
\* it was, count and window boundary, and no call for one origin changes the
\* bucket of another origin.
C34_RejectLeavesBuckets ==
    [][ Served =>
          /\ response'.status = 429 => rateLimits' = rateLimits
          /\ \A ip \in Origins \ {response'.req.ip} :
                 /\ ip \in DOMAIN rateLimits' <=> ip \in DOMAIN rateLimits
                 /\ ip \in DOMAIN rateLimits => rateLimits'[ip] = rateLimits[ip]
      ]_allVars

\* the second call in a row of one origin has been rejected while another
\* origin had a bucket of its own
C34_Witness ==
    /\ response.status = 429
    /\ response.req.ip \in DOMAIN admits
    /\ admits[response.req.ip].calls = RateCeiling + 2
    /\ rateLimits[response.req.ip].count = RateCeiling
    /\ \E ip \in DOMAIN rateLimits : ip # response.req.ip

----------------------------------------------------------------------------
\* C35: admission side effects are ordered.  A connection is in the registry,
\* in its room's member set and in the index before its open handler runs;
\* the open handler sends the welcome frame first and the user-joined frames
\* to the others after it; and a frame reaches a connection only when its
\* socket was open before the handler, which it is only after its own open
\* handler, or as the welcome frame of its own open handler: the welcome frame
\* is the first frame a connection receives.
C35_AdmissionOrder ==
    [][ /\ \A i \in 1..Len(out') :
               \/ sock[out'[i].to] = "OPEN"
               \/ /\ lastOp'.kind = "open"
                  /\ lastOp'.id = out'[i].to
                  /\ i = 1
                  /\ out'[i].frame.type = "welcome"
        /\ \A id \in Ids :
               (sock[id] # "OPEN" /\ sock'[id] = "OPEN") =>
                   /\ lastOp'.kind = "open"
                   /\ lastOp'.id = id
                   /\ id \in DOMAIN clients
                   /\ id \in Members(clients[id].room)
                   /\ id \in DOMAIN clientRooms
                   /\ clientRooms[id] = clients[id].room
                   /\ Len(out') >= 1
                   /\ out'[1] = [to |-> id,
                                 frame |-> WelcomeFrame(clients[id].room, id)]
                   /\ \A i \in 2..Len(out') :
                          /\ out'[i].frame.type = "user-joined"
                          /\ out'[i].frame.userId = id
                          /\ out'[i].to # id
      ]_vars

\* a connection has opened and its user-joined frame has gone to an open
\* member of its room, while a third member, still connecting, got nothing
C35_Witness ==
    /\ lastOp.kind = "open"
    /\ Len(out) = 2
    /\ out[1].to = lastOp.id
    /\ out[2].frame.type = "user-joined"
    /\ \E m \in Members(lastOp.room) : sock[m] = "CONNECTING"

----------------------------------------------------------------------------
\* C36: a connection is in the registry, in a member set and in rosters only
\* once its socket has opened, and a connection that closes before its
\* socket opens produces no user-left frame.
C36_VisibleOnlyActive ==
    /\ [](/\ \A id \in DOMAIN clients : sock[id] # "CONNECTING"
          /\ \A r \in DOMAIN rooms : \A m \in Members(r) : sock[m] # "CONNECTING"
          /\ \A i \in 1..Len(out) :
                 out[i].frame.type \in {"users", "user-joined", "user-left"} =>
                     \A u \in 1..Len(out[i].frame.users) :
                         sock[out[i].frame.users[u].userId] # "CONNECTING")
    /\ [][ (/\ lastOp.kind = "error"
            /\ lastOp.was = "CONNECTING"
            /\ lastOp'.kind = "close"
            /\ lastOp'.id = lastOp.id)
           => \A i \in 1..Len(out') : out'[i].frame.type # "user-left" ]_vars

\* The second half of C36 alone: the close of a connection whose socket
\* failed before it opened sends no user-left frame
C36_NoLeftBeforeOpen ==
    [][ (/\ lastOp.kind = "error"
         /\ lastOp.was = "CONNECTING"
         /\ lastOp'.kind = "close"
         /\ lastOp'.id = lastOp.id)
        => \A i \in 1..Len(out') : out'[i].frame.type # "user-left" ]_vars

----------------------------------------------------------------------------
\* C37: handling an inbound frame, parsable or not, valid or not, of any
\* type, leaves the registry, the directory and the client-to-room index as
\* they were; the sender of a frame answered with an error frame is still
\* registered and in its room.
C37_FramesKeepMembership ==
    [][ lastOp'.kind \in {"message", "late-message"} =>
          /\ UNCHANGED <<clients, rooms, clientRooms>>
          /\ (\E i \in 1..Len(out') : out'[i].frame.type = "error") =>
                 /\ lastOp'.id \in DOMAIN clients'
                 /\ clientRooms'[lastOp'.id] = clients'[lastOp'.id].room
                 /\ lastOp'.id \in MembersOf(rooms', clients'[lastOp'.id].room)
      ]_vars

\* an unparsable frame has been answered with an error frame and its sender
\* is registered and in its room, with another member
C37_Witness ==
    /\ lastOp.kind = "message"
    /\ lastOp.msg.parse = "bad"
    /\ out = SocketSend(lastOp.id, ErrorFrame("Invalid message format"))
    /\ Len(out) = 1
    /\ lastOp.id \in DOMAIN clients
    /\ lastOp.id \in Members(clients[lastOp.id].room)
    /\ Cardinality(Members(clients[lastOp.id].room)) > 1

----------------------------------------------------------------------------
\* C38: the from field of every relayed signaling frame is the id of the
\* connection that sent it, also when the inbound frame came with a from
\* field that names another connection, and every other field of the frame
\* is the field of the inbound frame.
C38_FromIsSender ==
    IsSignal =>
        \A i \in 1..Len(out) :
            out[i].frame.type \in SignalTypes =>
                /\ DOMAIN out[i].frame = DOMAIN lastOp.msg.body
                /\ out[i].frame.from = lastOp.id
                /\ \A f \in DOMAIN lastOp.msg.body \ {"from"} :
                       out[i].frame[f] = lastOp.msg.body[f]

\* an answer that names a third connection in its from field has been
\* relayed to its target
C38_Witness ==
    /\ IsUnicast
    /\ lastOp.msg.body.from \notin {NoId, lastOp.id, lastOp.msg.body.target}
    /\ Len(out) = 1
    /\ out[1].to = lastOp.msg.body.target
    /\ out[1].frame.from = lastOp.id

----------------------------------------------------------------------------
\* C39: no frame is delivered to a connection once handleClientDisconnect has
\* removed it: every frame a handler gets accepted goes to a connection that
\* is in the registry and that handleClientDisconnect has not removed, so
\* neither the user-left frame of its own departure nor any later broadcast,
\* unicast, roster reply or error frame reaches it.
C39_NothingAfterRemoval ==
    \A i \in 1..Len(out) :
        /\ out[i].to \in DOMAIN clients
        /\ lefts[out[i].to] = 0

\* an offer addressed to a connection that has been removed has been handled
\* while a member of the sender's room was open
C39_Witness ==
    /\ IsUnicast
    /\ lastOp.msg.body.target \in Ids
    /\ lefts[lastOp.msg.body.target] = 1
    /\ \E m \in Members(lastOp.room) \ {lastOp.id} : sock[m] = "OPEN"
    /\ out = <<>>

\* the close of an open connection has been announced to the two other
\* members of its room and not to the connection itself
C39_LeftWitness ==
    /\ lastOp.kind = "close"
    /\ lastOp.was = "OPEN"
    /\ Len(out) = 2
    /\ \A i \in 1..Len(out) :
           out[i].frame.type = "user-left" /\ out[i].to # lastOp.id

----------------------------------------------------------------------------
\* The sum of the sizes of all rooms' member sets
MemberCount ==
    Cardinality({ <<r, i>> \in (DOMAIN rooms) \X (1..MaxClients) :
                     i <= Len(rooms[r].clients) })

\* Every connection that was registered has had its close event
AllClosed == \A id \in Ids : sock[id] # "NONE" => id \in closeFired

\* C40: no state leaks.  The registry has as many entries as the rooms have
\* members in all and as the client-to-room index has entries, and once every
\* connection that was registered has had its close event, the registry, the
\* directory and the index are empty.
C40_NoLeak ==
    /\ Cardinality(DOMAIN clients) = MemberCount
    /\ Cardinality(DOMAIN clients) = Cardinality(DOMAIN clientRooms)
    /\ AllClosed => (clients = << >> /\ rooms = << >> /\ clientRooms = << >>)

----------------------------------------------------------------------------
====
